---- MODULE Spec2Model ----
(***************************************************************************)
(* registry-ui: the registry-access core of src/main.go.                   *)
(*                                                                         *)
(*   doRequest   (main.go:170-198)  one GET, re-sent once after a 401      *)
(*   GetCatalog  (main.go:200-220)  /v2/_catalog, then one GetTags per     *)
(*                                  repository, grouped by namespace key   *)
(*   GetTags     (main.go:222-231)  /v2/<name>/tags/list decoded to image  *)
(*                                                                         *)
(* Every failure the code detects ends in log.Fatalf, that is os.Exit(1)   *)
(* of the whole process.  The process is either the -sout command          *)
(* (main.go:143-150: one GetCatalog call made by main) or the HTTP server  *)
(* (main.go:154-158: catalogHandler runs once per /catalog request, each   *)
(* in a goroutine of its own).                                             *)
(*                                                                         *)
(* Strings the code inspects (repository names, namespace keys) are        *)
(* sequences of one-character strings, so strings.Contains and             *)
(* strings.Split are computed as Go computes them.                         *)
(***************************************************************************)
EXTENDS Integers, Sequences, FiniteSets, TLC

\* ------------------------------------------------------------- bounds
\* Longest repository list the registry holds in a -sout run.
MaxRepos == 2
\* Longest repository list the registry holds in a server run.
MaxServerRepos == 1
\* Longest repository list the registry holds in a -sout run that is
\* followed to its end.
MaxFairRepos == 2

\* ---------------------------------------------------------- constants
\* http.StatusUnauthorized.
StatusUnauthorized == 401

\* The callers of GetCatalog: main itself under -sout, one goroutine per
\* /catalog request in the server.
Main == "c1"
Callers == {"c1", "c2"}

\* ------------------------------------------------------------ strings
Slash == "/"
Sentinel == <<"-">>
EmptyString == <<>>

Solo == <<"s", "o", "l", "o">>
LibNginx == <<"l", "i", "b", "/", "n", "g">>
LibRedis == <<"l", "i", "b", "/", "r", "d">>
Deep == <<"a", "/", "b", "/", "c">>
DashX == <<"-", "/", "x">>
SlashX == <<"/", "x">>
Percent == <<"%">>

\* The repository names a registry may list.
RepoNames == {Solo, LibNginx, LibRedis, Deep, DashX, SlashX, Percent}

\* The names the registry of a server run may list.
ServerRepoNames == {LibNginx, Percent}

\* The names the registry of a -sout run followed to its end may list.
FairRepoNames == {Solo, LibNginx, Percent}

\* The tags the registry holds for a repository: none for a name without
\* '/', two for the others.
TagsOf(n) == IF \E k \in 1..Len(n) : n[k] = "/" THEN <<"1.19", "latest">> ELSE <<>>

RECURSIVE SeqsUpTo(_, _)
SeqsUpTo(S, n) ==
  IF n = 0 THEN {<<>>}
  ELSE LET shorter == SeqsUpTo(S, n - 1)
       IN shorter \cup {Append(s, x) : s \in {t \in shorter : Len(t) = n - 1}, x \in S}

\* strings.Contains(s, sep) for a one-character sep.
Contains(s, sep) == \E k \in 1..Len(s) : s[k] = sep

\* strings.Index(s, sep) (1-based) for a one-character sep that occurs in s.
Index(s, sep) == CHOOSE k \in 1..Len(s) : s[k] = sep /\ \A j \in 1..(k - 1) : s[j] # sep

\* strings.Split(s, sep) for a one-character sep: all the pieces between
\* the occurrences of sep, empty pieces included.
RECURSIVE Split(_, _)
Split(s, sep) ==
  IF Contains(s, sep)
  THEN <<SubSeq(s, 1, Index(s, sep) - 1)>> \o Split(SubSeq(s, Index(s, sep) + 1, Len(s)), sep)
  ELSE <<s>>

\* --------------------------------------------------------------- JSON
\* A response body, by what json.Unmarshal makes of it:
\*   json   the bytes are syntactically valid JSON
\*   typed  every field the target struct knows has a value of its Go type
\*   fields the object's field names
\* and the values of the fields the two target structs know.
Body(json, typed, fields, repositories, name, tags) ==
  [json |-> json, typed |-> typed, fields |-> fields,
   repositories |-> repositories, name |-> name, tags |-> tags]

NoBody == Body(FALSE, TRUE, {}, <<>>, EmptyString, <<>>)
\* Bytes that are not JSON (an HTML error page, a truncated document).
Garbage == Body(FALSE, TRUE, {"<"}, <<>>, EmptyString, <<>>)
\* The registry's error document {"errors": [...]}: valid JSON with none of
\* the fields _catalog or image know.
ErrDoc == Body(TRUE, TRUE, {"errors"}, <<>>, EmptyString, <<>>)
\* {"repositories": [...]}.
CatalogDoc(l) == Body(TRUE, TRUE, {"repositories"}, l, EmptyString, <<>>)
\* {"repositories": [..., 5]}: valid JSON whose list ends in a non-string;
\* l is what json.Unmarshal has stored when it reports the type error.
BadCatalogDoc(l) == Body(TRUE, FALSE, {"repositories"}, l, EmptyString, <<>>)
\* {"name": n, "tags": t}.
TagsDoc(n, t) == Body(TRUE, TRUE, {"name", "tags"}, <<>>, n, t)
\* {"name": n, "tags": "x"}: valid JSON whose tags are no list.
BadTagsDoc(n) == Body(TRUE, FALSE, {"name", "tags"}, <<>>, n, <<>>)

\* json.Unmarshal returns an error (a SyntaxError or an UnmarshalTypeError).
UnmarshalErrSyntaxOnly(body) == ~body.json
UnmarshalErr(body) == ~body.json \/ ~body.typed

\* What json.Unmarshal(b, &d) leaves in d (type _catalog): nothing is stored
\* when the bytes are not valid JSON; absent fields keep their zero value.
UnmarshalCatalog(body) ==
  IF body.json /\ "repositories" \in body.fields THEN body.repositories ELSE <<>>

\* What json.Unmarshal(b, &i) leaves in i (type image).
UnmarshalImage(body) ==
  [Name |-> IF body.json /\ "name" \in body.fields THEN body.name ELSE EmptyString,
   Tags |-> IF body.json /\ "tags" \in body.fields THEN body.tags ELSE <<>>]

\* -------------------------------------------------------------- state
VARIABLES
  mode,       \* "sout" (main calls GetCatalog once) or "server"
  registryURI, \* the package variable registryURI, set by main (main.go:123)
  registry,   \* the repository list the registry holds
  procState,  \* "running", "fatal" (log.Fatalf) or "panic" (main panicked)
  fatalBy,    \* the caller whose log.Fatalf ended the process
  fatalMsg,   \* the message of that log.Fatalf
  pc,         \* each caller's position
  phase,      \* which request its doRequest serves: "catalog" or "tags"
  d,          \* GetCatalog's d.Repositories
  c,          \* GetCatalog's c.Repositories
  idx,        \* position of the range loop in d (1-based)
  res,        \* doRequest's res: [status, body]
  b,          \* doRequest's b, the bytes it returns
  req,        \* doRequest's req: [method, uri, cred]
  \* history variables (not program state)
  sends,      \* http.DefaultClient.Do calls made by the current doRequest
  auths,      \* auth.Authenticate calls made by the current doRequest
  authOK,     \* auth.Authenticate returned nil in the current doRequest
  first,      \* status of the first response of the current doRequest (0: none)
  got,        \* the response the registry sent last in the current doRequest
  tagSends,   \* tags/list requests sent by the current GetCatalog call
  allSends,   \* requests sent by the current GetCatalog call, all targets
  allAuths,   \* auth.Authenticate calls made by the current GetCatalog call
  catBad,     \* the _catalog body received was not JSON of the _catalog type
  nonOK,      \* some GetTags of this call ended with a non-2xx response
  src,        \* like c, holding the position in d each image was fetched for
  gets,       \* what each doRequest call of this GetCatalog call asked for
  ended,      \* how many of these doRequest calls have returned
  sent,       \* the requests given to http.DefaultClient.Do by the current doRequest
  authArg,    \* the calls of auth.Authenticate made by it (AuthCall)
  own         \* the bodies the registry sent in answer to this call's tags requests

vars == <<mode, registryURI, registry, procState, fatalBy, fatalMsg, pc, phase, d, c, idx,
          res, b, sends, auths, authOK, first, got, tagSends, allSends, allAuths, catBad, nonOK, src,
          gets, ended, own, req, sent, authArg>>

progVars == <<d, c, idx, res, b>>
histVars == <<sends, auths, authOK, first, got, tagSends, allSends, allAuths, catBad, nonOK, src>>
callVars == <<gets, ended, own>>
reqVars == <<req, sent, authArg>>

\* The status codes the registry answers with.
Statuses == {200, StatusUnauthorized, 404}
Is2xx(s) == s >= 200 /\ s <= 299

NoRes == [status |-> 0, body |-> NoBody]
\* make(map[string][]image): the map with no key.
EmptyMap == <<>>

RepoLists(n) == SeqsUpTo(RepoNames, n)
\* A server run's registry lists a repository once.
ServerRepoLists(n) ==
  {l \in SeqsUpTo(ServerRepoNames, n) :
     \A i \in 1..Len(l) : \A j \in 1..Len(l) : l[i] = l[j] => i = j}
FairRepoLists(n) == SeqsUpTo(FairRepoNames, n)

\* No request built yet.
NoReq == [method |-> "", uri |-> <<>>, cred |-> FALSE]

\* viper.GetString("hub_uri") (main.go:123).
HubURI == "hub"

InitWith(m, lists) ==
  /\ mode = m
  /\ registryURI = HubURI
  /\ registry \in lists
  /\ procState = "running"
  /\ fatalBy = "none"
  /\ fatalMsg = "none"
  /\ pc = [p \in Callers |-> "idle"]
  /\ phase = [p \in Callers |-> "catalog"]
  /\ d = [p \in Callers |-> <<>>]
  /\ c = [p \in Callers |-> EmptyMap]
  /\ idx = [p \in Callers |-> 0]
  /\ res = [p \in Callers |-> NoRes]
  /\ b = [p \in Callers |-> NoBody]
  /\ sends = [p \in Callers |-> 0]
  /\ auths = [p \in Callers |-> 0]
  /\ authOK = [p \in Callers |-> FALSE]
  /\ first = [p \in Callers |-> 0]
  /\ got = [p \in Callers |-> NoRes]
  /\ tagSends = [p \in Callers |-> 0]
  /\ allSends = [p \in Callers |-> 0]
  /\ allAuths = [p \in Callers |-> 0]
  /\ catBad = [p \in Callers |-> FALSE]
  /\ nonOK = [p \in Callers |-> FALSE]
  /\ src = [p \in Callers |-> EmptyMap]
  /\ gets = [p \in Callers |-> <<>>]
  /\ ended = [p \in Callers |-> 0]
  /\ own = [p \in Callers |-> <<>>]
  /\ req = [p \in Callers |-> NoReq]
  /\ sent = [p \in Callers |-> <<>>]
  /\ authArg = [p \in Callers |-> <<>>]

\* main with -sout (main.go:143-150).
Init == InitWith("sout", RepoLists(MaxRepos))
\* main without -sout: the HTTP server (main.go:151-158).
InitServer == InitWith("server", ServerRepoLists(MaxServerRepos))
\* main with -sout, over the registries of FairRepoLists.
InitFair == InitWith("sout", FairRepoLists(MaxFairRepos))

\* ------------------------------------------------------------ helpers
\* What the request of main.go:202 asks for; the request of main.go:224 asks
\* for the tags of a repository name.
CatalogTarget == <<"_catalog">>

\* An assignment to a variable declared inside a function (var d, var c,
\* b := ...: main.go:201, 207, 192): every call has a variable of its own.
SetShared(f, p, v) == [q \in DOMAIN f |-> v]
SetLocal(f, p, v) == [f EXCEPT ![p] = v]

\* The range loop of main.go:211 moves on to the next element.
NextIndexSame(i) == i
NextIndex(i) == i + 1

\* log.Fatalf(msg) in caller p: the message is logged and os.Exit(1) ends
\* the process, every goroutine with it.
FatalLogOnly(p, msg) ==
  /\ procState' = procState
  /\ fatalBy' = p
  /\ fatalMsg' = msg
Fatal(p, msg) ==
  /\ procState' = "fatal"
  /\ fatalBy' = p
  /\ fatalMsg' = msg

NoFatal == UNCHANGED <<procState, fatalBy, fatalMsg>>

\* A panic in caller p: in main it ends the process; in a handler net/http
\* recovers it and only that request is abandoned.
Panic(p) ==
  /\ procState' = IF mode = "sout" THEN "panic" ELSE procState
  /\ pc' = [pc EXCEPT ![p] = "panicked"]
  /\ UNCHANGED <<fatalBy, fatalMsg>>

\* http.NewRequest: url.Parse rejects a URI with an invalid escape, and a
\* bare '%' is one.  The _catalog URI holds no repository name.
NewRequestOK(p) ==
  IF phase[p] = "catalog" THEN TRUE ELSE ~Contains(d[p][idx[p]], "%")

\* http.NewRequest(method, uri, nil) of caller p's doRequest: the URI is
\* "http://" + registryURI + "/v2/_catalog" (main.go:202) or
\* "http://" + registryURI + "/v2/" + imageName + "/tags/list" (main.go:224).
NewRequest(p) ==
  [method |-> "GET",
   uri |-> <<registryURI, IF phase[p] = "catalog" THEN CatalogTarget ELSE d[p][idx[p]]>>,
   cred |-> FALSE]

\* What a successful auth.Authenticate does to the request it is given: the
\* package is not part of the source at hand; by its interface it attaches
\* credentials to the request and leaves the rest of it alone.
Attach(q) == [q EXCEPT !.cred = TRUE]

\* The call auth.Authenticate(res, req) of main.go:179 as it is remembered:
\* the status of the response passed, whether that response is the one the
\* last send received, and the request passed.
AuthCall(r, q, last) == [status |-> r.status, received |-> r = last, req |-> q]

\* The bodies the registry may send in answer to caller p's request.
BodiesFor(p) ==
  IF phase[p] = "catalog"
  THEN {Garbage, ErrDoc, CatalogDoc(registry), BadCatalogDoc(registry)}
  ELSE {Garbage, ErrDoc, BadTagsDoc(d[p][idx[p]]),
        TagsDoc(d[p][idx[p]], TagsOf(d[p][idx[p]]))}

ResponsesFor(p) == [status : Statuses, body : BodiesFor(p)]

\* Where doRequest goes after the first response (main.go:178).
AfterFirstAnyError(status) == IF status >= 400 THEN "auth" ELSE "read"
AfterFirst(status) == IF status = StatusUnauthorized THEN "auth" ELSE "read"
\* Where doRequest goes after the re-sent request's response (main.go:185-192).
AfterRetryLoop(status) == IF status = StatusUnauthorized THEN "auth" ELSE "read"
AfterRetry(status) == "read"

\* res after the second Do (main.go:185: res, err = ...).
ResKeepFirst(old, new) == old
ResAfterRetry(old, new) == new

\* c.Repositories[key] = append(c.Repositories[key], x) (main.go:214, 216).
GroupPrepend(m, key, x) ==
  [k \in DOMAIN m \cup {key} |->
     IF k = key THEN <<x>> \o (IF key \in DOMAIN m THEN m[key] ELSE <<>>) ELSE m[k]]
Group(m, key, x) ==
  [k \in DOMAIN m \cup {key} |->
     IF k = key THEN Append(IF key \in DOMAIN m THEN m[key] ELSE <<>>, x) ELSE m[k]]

\* The key GetCatalog files a repository under (main.go:212-217).
NamespaceKeyOwnName(repository) ==
  IF Contains(repository, Slash) THEN Split(repository, Slash)[1] ELSE repository
NamespaceKey(repository) ==
  IF Contains(repository, Slash) THEN Split(repository, Slash)[1] ELSE Sentinel

\* ------------------------------------------------------------ actions
\* GetCatalog is called (main.go:83, 144) and calls doRequest (main.go:202).
Start(p) ==
  /\ procState = "running"
  /\ pc[p] = "idle"
  /\ mode = "server" \/ p = Main
  /\ pc' = [pc EXCEPT ![p] = "send"]
  /\ phase' = [phase EXCEPT ![p] = "catalog"]
  /\ gets' = [gets EXCEPT ![p] = <<CatalogTarget>>]
  /\ UNCHANGED <<mode, registryURI, registry, progVars, histVars, ended, own, reqVars>>
  /\ NoFatal

\* main.go:171-178: build the request and send it.
Do1(p) ==
  /\ procState = "running"
  /\ pc[p] = "send"
  /\ UNCHANGED <<mode, registryURI, registry, phase, d, c, idx, b, auths, allAuths, authOK, catBad, nonOK, src, callVars, authArg>>
  /\ \/ \* NewRequest failed: its error is overwritten and Do(nil) panics.
        /\ ~NewRequestOK(p)
        /\ Panic(p)
        /\ UNCHANGED <<res, sends, first, got, tagSends, allSends, req, sent>>
     \/ \* transport failure
        /\ NewRequestOK(p)
        /\ Fatal(p, "retrieving catalog")
        /\ req' = [req EXCEPT ![p] = NewRequest(p)]
        /\ sent' = [sent EXCEPT ![p] = Append(@, NewRequest(p))]
        /\ sends' = [sends EXCEPT ![p] = @ + 1]
        /\ tagSends' = [tagSends EXCEPT ![p] = IF phase[p] = "tags" THEN @ + 1 ELSE @]
        /\ allSends' = [allSends EXCEPT ![p] = @ + 1]
        /\ UNCHANGED <<pc, res, first, got>>
     \/ \* a response
        /\ NewRequestOK(p)
        /\ \E r \in ResponsesFor(p) :
             /\ res' = [res EXCEPT ![p] = r]
             /\ got' = [got EXCEPT ![p] = r]
             /\ first' = [first EXCEPT ![p] = r.status]
             /\ pc' = [pc EXCEPT ![p] = AfterFirst(r.status)]
        /\ req' = [req EXCEPT ![p] = NewRequest(p)]
        /\ sent' = [sent EXCEPT ![p] = Append(@, NewRequest(p))]
        /\ sends' = [sends EXCEPT ![p] = @ + 1]
        /\ tagSends' = [tagSends EXCEPT ![p] = IF phase[p] = "tags" THEN @ + 1 ELSE @]
        /\ allSends' = [allSends EXCEPT ![p] = @ + 1]
        /\ NoFatal

\* main.go:179-183: auth.Authenticate(res, req).
Authenticate(p) ==
  /\ procState = "running"
  /\ pc[p] = "auth"
  /\ auths' = [auths EXCEPT ![p] = @ + 1]
  /\ allAuths' = [allAuths EXCEPT ![p] = @ + 1]
  /\ authArg' = [authArg EXCEPT ![p] = Append(@, AuthCall(res[p], req[p], got[p]))]
  /\ UNCHANGED <<mode, registryURI, registry, phase, progVars, sends, first, got, tagSends, allSends, catBad, nonOK, src, callVars, sent>>
  /\ \/ /\ Fatal(p, "authenticating")
        /\ UNCHANGED <<pc, authOK, req>>
     \/ /\ authOK' = [authOK EXCEPT ![p] = TRUE]
        /\ req' = [req EXCEPT ![p] = Attach(@)]
        /\ pc' = [pc EXCEPT ![p] = "resend"]
        /\ NoFatal

\* main.go:185-188: the request is sent again.
Do2(p) ==
  /\ procState = "running"
  /\ pc[p] = "resend"
  /\ sends' = [sends EXCEPT ![p] = @ + 1]
  /\ tagSends' = [tagSends EXCEPT ![p] = IF phase[p] = "tags" THEN @ + 1 ELSE @]
  /\ allSends' = [allSends EXCEPT ![p] = @ + 1]
  /\ sent' = [sent EXCEPT ![p] = Append(@, req[p])]
  /\ UNCHANGED <<mode, registryURI, registry, phase, d, c, idx, b, auths, allAuths, authOK, first, catBad, nonOK, src, callVars, req, authArg>>
  /\ \/ /\ Fatal(p, "retrieving catalog")
        /\ UNCHANGED <<pc, res, got>>
     \/ /\ \E r \in ResponsesFor(p) :
             /\ res' = [res EXCEPT ![p] = ResAfterRetry(res[p], r)]
             /\ got' = [got EXCEPT ![p] = r]
             /\ pc' = [pc EXCEPT ![p] = AfterRetry(r.status)]
        /\ NoFatal

\* main.go:192-197: ioutil.ReadAll(res.Body), and doRequest returns b.
ReadAll(p) ==
  /\ procState = "running"
  /\ pc[p] = "read"
  /\ UNCHANGED <<mode, registryURI, registry, phase, d, c, idx, res, sends, auths, allAuths, authOK, first, got, tagSends, allSends, src, gets, reqVars>>
  /\ \/ /\ Fatal(p, "reading body")
        /\ UNCHANGED <<pc, b, catBad, nonOK, ended, own>>
     \/ /\ b' = SetLocal(b, p, res[p].body)
        /\ own' = [own EXCEPT ![p] = IF phase[p] = "tags" THEN Append(@, got[p].body) ELSE @]
        /\ ended' = [ended EXCEPT ![p] = @ + 1]
        /\ pc' = [pc EXCEPT ![p] = "unmarshal"]
        /\ catBad' = [catBad EXCEPT ![p] =
                        IF phase[p] = "catalog"
                        THEN ~got[p].body.json \/ ~got[p].body.typed ELSE @]
        /\ nonOK' = [nonOK EXCEPT ![p] =
                       IF phase[p] = "tags" THEN @ \/ ~Is2xx(got[p].status) ELSE @]
        /\ NoFatal

\* The locals of a doRequest call that starts.
EnterDoRequest(p) ==
  /\ res' = [res EXCEPT ![p] = NoRes]
  /\ b' = [b EXCEPT ![p] = NoBody]
  /\ sends' = [sends EXCEPT ![p] = 0]
  /\ auths' = [auths EXCEPT ![p] = 0]
  /\ authOK' = [authOK EXCEPT ![p] = FALSE]
  /\ first' = [first EXCEPT ![p] = 0]
  /\ got' = [got EXCEPT ![p] = NoRes]
  /\ req' = [req EXCEPT ![p] = NoReq]
  /\ sent' = [sent EXCEPT ![p] = <<>>]
  /\ authArg' = [authArg EXCEPT ![p] = <<>>]

\* main.go:203-211: the _catalog body is decoded, the catalog is made and
\* the loop over d.Repositories starts (GetTags of the first, main.go:224),
\* or GetCatalog returns c when there is none (main.go:219).
DecodeCatalog(p) ==
  /\ procState = "running"
  /\ pc[p] = "unmarshal"
  /\ phase[p] = "catalog"
  /\ UNCHANGED <<mode, registryURI, registry, tagSends, allSends, allAuths, catBad, nonOK, ended, own>>
  /\ IF UnmarshalErr(b[p])
     THEN /\ Fatal(p, "marshalling result")
          /\ UNCHANGED <<pc, phase, progVars, sends, auths, authOK, first, got, src, gets, reqVars>>
     ELSE /\ d' = SetLocal(d, p, UnmarshalCatalog(b[p]))
          /\ c' = SetLocal(c, p, EmptyMap)
          /\ src' = [src EXCEPT ![p] = EmptyMap]
          /\ idx' = [idx EXCEPT ![p] = IF UnmarshalCatalog(b[p]) = <<>> THEN 0 ELSE 1]
          /\ pc' = [pc EXCEPT ![p] = IF UnmarshalCatalog(b[p]) = <<>> THEN "done" ELSE "send"]
          /\ phase' = [phase EXCEPT ![p] = IF UnmarshalCatalog(b[p]) = <<>> THEN @ ELSE "tags"]
          /\ gets' = [gets EXCEPT ![p] = IF UnmarshalCatalog(b[p]) = <<>> THEN @
                                         ELSE Append(@, UnmarshalCatalog(b[p])[1])]
          /\ EnterDoRequest(p)
          /\ NoFatal

\* main.go:226-229 and 212-218: the tags body is decoded to an image, the
\* image is appended under its repository's key, and the loop goes on to
\* the next repository or GetCatalog returns c (main.go:219).
DecodeImage(p) ==
  /\ procState = "running"
  /\ pc[p] = "unmarshal"
  /\ phase[p] = "tags"
  /\ UNCHANGED <<mode, registryURI, registry, phase, d, tagSends, allSends, allAuths, catBad, nonOK, ended, own>>
  /\ IF UnmarshalErr(b[p])
     THEN /\ Fatal(p, "marshalling result")
          /\ UNCHANGED <<pc, c, idx, res, b, sends, auths, authOK, first, got, src, gets, reqVars>>
     ELSE /\ c' = [c EXCEPT ![p] = Group(@, NamespaceKey(d[p][idx[p]]), UnmarshalImage(b[p]))]
          /\ src' = [src EXCEPT ![p] = Group(@, NamespaceKey(d[p][idx[p]]), idx[p])]
          /\ idx' = [idx EXCEPT ![p] = IF @ = Len(d[p]) THEN 0 ELSE NextIndex(@)]
          /\ gets' = [gets EXCEPT ![p] = IF idx[p] = Len(d[p]) THEN @
                                         ELSE Append(@, d[p][NextIndex(idx[p])])]
          /\ pc' = [pc EXCEPT ![p] = IF idx[p] = Len(d[p]) THEN "done" ELSE "send"]
          /\ EnterDoRequest(p)
          /\ NoFatal

Next ==
  \E p \in Callers :
    \/ Start(p)
    \/ Do1(p)
    \/ Authenticate(p)
    \/ Do2(p)
    \/ ReadAll(p)
    \/ DecodeCatalog(p)
    \/ DecodeImage(p)

Spec == Init /\ [][Next]_vars
SpecServer == InitServer /\ [][Next]_vars

\* Every send, every auth.Authenticate call and every step of main returns:
\* the program goes on while it has a step to take.
SpecFair == InitFair /\ [][Next]_vars /\ WF_vars(Next)

\* ------------------------------------------------------- vocabulary
\* doRequest has returned b[p] to GetCatalog or GetTags: the only way the
\* code has of ending a Get without ending the process.
Returned(p) == pc[p] = "unmarshal"

\* GetCatalog has returned c[p] to its caller.
CatalogReturned(p) == pc[p] = "done"

\* The process was ended by a log.Fatalf of caller p.
FatalIn(p) == procState = "fatal" /\ fatalBy = p

\* A GetTags of caller p's GetCatalog call failed: its doRequest or its
\* decoding ended in log.Fatalf, or its final response was not 2xx.
TagsFetchFailed(p) == nonOK[p] \/ (FatalIn(p) /\ phase[p] = "tags")

\* The places of caller p's catalog: <<key, position under that key>>.
Slots(p) == UNION {{<<k, j>> : j \in 1..Len(c[p][k])} : k \in DOMAIN c[p]}

\* The image at a place, and the repository it was fetched for.
ImageAt(p, s) == c[p][s[1]][s[2]]
RepoAt(p, s) == d[p][src[p][s[1]][s[2]]]

\* The part of a repository name before its first '/'.
BeforeFirstSlash(r) ==
  LET at == CHOOSE k \in 1..Len(r) : r[k] = "/" /\ \A j \in 1..(k - 1) : r[j] # "/"
  IN SubSeq(r, 1, at - 1)

\* The key the specification gives a repository name.
ExpectedKey(r) ==
  IF \E k \in 1..Len(r) : r[k] = "/" THEN BeforeFirstSlash(r) ELSE <<"-">>

\* ------------------------------------------------------------- claims
\* C1: within one doRequest at most two requests are sent and Authenticate
\* is called at most once; a second request is sent only after a first
\* response 401 and a successful Authenticate; the second response, 401
\* included, is followed by no further send or Authenticate.
C1_AtMostOneRetry ==
  \A p \in Callers :
    /\ sends[p] <= 2
    /\ auths[p] <= 1
    /\ sends[p] = 2 => (first[p] = StatusUnauthorized /\ auths[p] = 1 /\ authOK[p])
    /\ auths[p] = 1 => (first[p] = StatusUnauthorized /\ sends[p] >= 1)
    /\ (pc[p] \in {"auth", "resend"} /\ ~FatalIn(p)) => sends[p] = 1

\* C1 witness: a doRequest ended after a second 401.
C1_Witness ==
  \E p \in Callers :
    Returned(p) /\ sends[p] = 2 /\ auths[p] = 1 /\ got[p].status = StatusUnauthorized

\* C2: a doRequest whose re-sent request is answered 401 ends in failure
\* and does not return the body of that response.
C2_Second401IsFailure ==
  \A p \in Callers :
    (sends[p] = 2 /\ first[p] = StatusUnauthorized /\ authOK[p]
       /\ got[p].status = StatusUnauthorized) => ~Returned(p)

\* C3: doRequest returns a body only when the final response is 2xx.
C3_BodyOnlyOn2xx ==
  \A p \in Callers : Returned(p) => Is2xx(got[p].status)

\* C4: when a GetTags of a GetCatalog call fails, that call returns no
\* catalog.
C4_TagsFailureNoCatalog ==
  \A p \in Callers : TagsFetchFailed(p) => ~CatalogReturned(p)

\* C5: after a _catalog body that json.Unmarshal rejects, the call is
\* aborted: it sends no tags/list request and returns no catalog.
C5_NoTagsAfterCatalogDecodeFailure ==
  \A p \in Callers :
    catBad[p] => (tagSends[p] = 0 /\ phase[p] = "catalog" /\ ~CatalogReturned(p))

\* C5 witness: a call aborted at the decoding of a malformed _catalog body
\* that lists repositories.
C5_Witness ==
  \E p \in Callers :
    /\ catBad[p] /\ FatalIn(p) /\ fatalMsg = "marshalling result"
    /\ b[p].repositories # <<>>

\* C6: a returned catalog is a partition of the repository list: as many
\* images as names, and every name the name of as many images as it has
\* occurrences in the list.
C6_Partition ==
  \A p \in Callers :
    CatalogReturned(p) =>
      /\ Cardinality(Slots(p)) = Len(d[p])
      /\ \A n \in {d[p][k] : k \in 1..Len(d[p])} \cup {ImageAt(p, s).Name : s \in Slots(p)} :
           Cardinality({s \in Slots(p) : ImageAt(p, s).Name = n})
             = Cardinality({k \in 1..Len(d[p]) : d[p][k] = n})

\* C7: the image of repository r is stored under the part of r before its
\* first '/', or under "-" when r has no '/', and has r as its name.
C7_KeyAndFullName ==
  \A p \in Callers :
    \A s \in Slots(p) :
      /\ s[1] = ExpectedKey(RepoAt(p, s))
      /\ ImageAt(p, s).Name = RepoAt(p, s)

\* C8: under every key the images are in the order of their repositories
\* in the list.
C8_OrderWithinKey ==
  \A p \in Callers :
    /\ DOMAIN src[p] = DOMAIN c[p]
    /\ \A k \in DOMAIN c[p] :
         /\ Len(src[p][k]) = Len(c[p][k])
         /\ \A j \in 1..Len(c[p][k]) :
              ImageAt(p, <<k, j>>).Name \in {EmptyString, RepoAt(p, <<k, j>>)}
         /\ \A i \in 1..Len(src[p][k]) : \A j \in 1..Len(src[p][k]) :
              i < j => src[p][k][i] < src[p][k][j]

\* C8 witness: a returned catalog with two different named images under
\* one key.
C8_Witness ==
  \E p \in Callers :
    /\ CatalogReturned(p)
    /\ \E k \in DOMAIN c[p] :
         /\ Len(c[p][k]) >= 2
         /\ c[p][k][1].Name # EmptyString
         /\ c[p][k][2].Name # EmptyString
         /\ c[p][k][1].Name # c[p][k][2].Name

\* C9: a doRequest that ends on a response 200 with body B returns B,
\* whether that response was the first one or the one after a 401.
C9_RetryTransparent ==
  \A p \in Callers :
    (Returned(p) /\ got[p].status = 200) => b[p] = got[p].body

\* C9 witness: a repository list returned after 401, Authenticate, 200.
C9_Witness ==
  \E p \in Callers :
    /\ Returned(p) /\ sends[p] = 2 /\ first[p] = StatusUnauthorized
    /\ got[p].status = 200
    /\ registry # <<>> /\ b[p] = CatalogDoc(registry)

\* C10: a failure inside one GetCatalog call never ends the work of
\* another call of the same process.
C10_FailureStaysInCall ==
  ~(\E p \in Callers : \E q \in Callers :
      /\ FatalIn(p)
      /\ q # p
      /\ pc[q] \notin {"idle", "done", "panicked"})

\* The transport failed on a send of caller p (the message of main.go:175
\* and 187 was logged for it).
NetFailed(p) == fatalBy = p /\ fatalMsg = "retrieving catalog"

\* auth.Authenticate failed for caller p (the message of main.go:182).
AuthFailed(p) == fatalBy = p /\ fatalMsg = "authenticating"

\* C11: after a transport failure on a send of a doRequest, the doRequest
\* returns nothing and neither it nor the GetCatalog call around it sends
\* any further request.
C11_NoSendAfterTransportFailure ==
  /\ [](\A p \in Callers : NetFailed(p) =>
          (~Returned(p) /\ ~CatalogReturned(p) /\ pc[p] \in {"send", "resend"}))
  /\ [][\A p \in Callers : NetFailed(p) =>
          (sends'[p] = sends[p] /\ tagSends'[p] = tagSends[p] /\ pc'[p] = pc[p])]_vars

\* C11 witness: the transport failed on the re-sent request of a GetTags.
C11_Witness ==
  \E p \in Callers :
    NetFailed(p) /\ phase[p] = "tags" /\ sends[p] = 2 /\ authOK[p]

\* C12: when the first response is 401 and Authenticate fails, exactly one
\* request was sent by that doRequest, none is sent afterwards and no body
\* is returned.
C12_AuthFailureNoResend ==
  /\ [](\A p \in Callers : AuthFailed(p) =>
          (sends[p] = 1 /\ first[p] = StatusUnauthorized /\ ~authOK[p]
             /\ pc[p] = "auth" /\ b[p] = NoBody))
  /\ [][\A p \in Callers : AuthFailed(p) =>
          (sends'[p] = sends[p] /\ tagSends'[p] = tagSends[p])]_vars

\* C12 witness: Authenticate failed in a GetTags.
C12_Witness ==
  \E p \in Callers :
    AuthFailed(p) /\ FatalIn(p) /\ phase[p] = "tags" /\ auths[p] = 1

\* C13: a GetCatalog call makes its doRequest calls one after another, the
\* _catalog one first and then one per repository in the order of the
\* list, each starting only when the one before it has returned; a call
\* that returns a catalog over N repositories has made exactly N + 1.
C13_SequentialGets ==
  \A p \in Callers :
    /\ Len(gets[p]) <= Len(d[p]) + 1
    /\ gets[p] = SubSeq(<<CatalogTarget>> \o d[p], 1, Len(gets[p]))
    /\ Len(gets[p]) - ended[p] \in {0, 1}
    /\ pc[p] \in {"send", "auth", "resend", "read"} => Len(gets[p]) - ended[p] = 1
    /\ CatalogReturned(p) =>
         (gets[p] = <<CatalogTarget>> \o d[p] /\ ended[p] = Len(d[p]) + 1)

\* C13 witness: a catalog returned over two different repositories.
C13_Witness ==
  \E p \in Callers :
    /\ CatalogReturned(p) /\ Len(d[p]) = 2 /\ d[p][1] # d[p][2]
    /\ gets[p] = <<CatalogTarget, d[p][1], d[p][2]>> /\ ended[p] = 3

\* The request of caller p's current doRequest cannot be built: the URI
\* of main.go:224 holds a repository name url.Parse rejects.
Malformed(p) ==
  IF phase[p] = "tags" /\ idx[p] > 0 THEN Contains(d[p][idx[p]], "%") ELSE FALSE

\* Caller p's doRequest panicked (a nil *http.Request was given to Do).
Panicked(p) == pc[p] = "panicked"

\* C14: a doRequest whose request cannot be built sends nothing, calls
\* Authenticate never, and ends with an error outcome, not with a panic.
C14_ConstructionErrorReported ==
  \A p \in Callers :
    (Malformed(p) /\ pc[p] # "send") =>
      (sends[p] = 0 /\ auths[p] = 0 /\ ~Panicked(p))

\* C15: every image of a returned catalog has a name that is not empty.
C15_ImageNameNotEmpty ==
  \A p \in Callers :
    CatalogReturned(p) => \A s \in Slots(p) : ImageAt(p, s).Name # EmptyString

\* The catalog the code builds from the first n repositories of list l and
\* the bodies bs received for them.
RECURSIVE CatalogOf(_, _, _)
CatalogOf(l, bs, n) ==
  IF n = 0 THEN EmptyMap
  ELSE Group(CatalogOf(l, bs, n - 1), NamespaceKey(l[n]), UnmarshalImage(bs[n]))

\* What one call owns: its position and the variables of its functions.
Private(q) == <<pc[q], phase[q], d[q], c[q], idx[q], res[q], b[q]>>

\* C16: concurrent GetCatalog calls share no mutable state: registryURI is
\* never changed, every step changes the variables of one call only, and the
\* catalog of a call is built from the bodies sent in answer to its own
\* requests.
C16_NoSharedState ==
  /\ [](registryURI = HubURI)
  /\ [](\A p \in Callers :
          c[p] = CatalogOf(d[p], own[p], Cardinality(Slots(p))))
  /\ [][\E p \in Callers : \A q \in Callers \ {p} : Private(q)' = Private(q)]_vars

\* C16 witness: two calls have returned different catalogs of the same
\* registry.
C16_Witness ==
  \E p \in Callers : \E q \in Callers :
    /\ CatalogReturned(p) /\ CatalogReturned(q)
    /\ d[p] = d[q] /\ d[p] # <<>>
    /\ c[p] # c[q]

\* C17: within one Get, auth.Authenticate is called at most once, only
\* directly after a first response of status 401, with that response and the
\* request that was just sent; the request sent again is that same request
\* (same method and URI, with what Authenticate attached); a first response
\* of any other status never leads to a call of Authenticate.
C17_AuthenticateOnlyAfterFirst401 ==
  /\ [](\A p \in Callers :
          /\ Len(authArg[p]) <= 1
          /\ Len(sent[p]) <= 2
          /\ first[p] # StatusUnauthorized => authArg[p] = <<>>
          /\ authArg[p] # <<>> =>
                /\ authArg[p][1].status = StatusUnauthorized
                /\ authArg[p][1].received
                /\ Len(sent[p]) >= 1
                /\ authArg[p][1].req = sent[p][1]
          /\ Len(sent[p]) = 2 =>
                /\ authArg[p] # <<>>
                /\ sent[p][2].method = sent[p][1].method
                /\ sent[p][2].uri = sent[p][1].uri)
  /\ [][\A p \in Callers :
          authArg[p]' # authArg[p] /\ authArg[p]' # <<>> =>
            /\ authArg[p] = <<>>
            /\ Len(sent[p]) = 1
            /\ res[p] = got[p]
            /\ first[p] = StatusUnauthorized]_vars

C17_Witness ==
  \E p \in Callers :
    /\ pc[p] = "read"
    /\ Len(authArg[p]) = 1
    /\ Len(sent[p]) = 2
    /\ sent[p][2].cred /\ ~sent[p][1].cred

\* The GetCatalog call of p has ended: it returned its catalog, or the
\* process exited in it, or the goroutine serving it panicked.
CallEnded(p) == CatalogReturned(p) \/ FatalIn(p) \/ pc[p] = "panicked" \/ procState # "running"

\* C18: if every send and every Authenticate call returns, a FetchCatalog
\* call over N repositories ends, with a catalog or with a failure, and has
\* then made at most 2*(N+1) sends and at most N+1 Authenticate calls, also
\* when the registry answers 401 to everything.
C18_Terminates ==
  /\ [](\A p \in Callers :
          /\ allSends[p] <= 2 * (Len(d[p]) + 1)
          /\ allAuths[p] <= Len(d[p]) + 1)
  /\ <>CallEnded(Main)

C18_Witness ==
  /\ CatalogReturned(Main)
  /\ Len(d[Main]) = MaxFairRepos
  /\ allSends[Main] = 2 * (Len(d[Main]) + 1)
  /\ allAuths[Main] = Len(d[Main]) + 1

\* A repository name with a '/' in it, and one whose part before the first
\* '/' is "-".
HasSlash(r) == \E k \in 1..Len(r) : r[k] = "/"
DashNamespace(r) == Len(r) >= 2 /\ r[1] = "-" /\ r[2] = "/"

\* C19 as stated: in every returned catalog the key "-" holds only images
\* of repositories whose name has no '/', and every other key holds only
\* images of repositories whose name has a '/'.
C19_SentinelOnlySlashFree ==
  \A p \in Callers :
    CatalogReturned(p) =>
      \A s \in Slots(p) : (s[1] = Sentinel) <=> ~HasSlash(RepoAt(p, s))

\* C19 as amended: in every returned catalog every key other than "-" holds
\* only images of repositories whose name has a '/', and the key "-" holds
\* only images of repositories whose name has no '/' or starts with "-/".
C19_SentinelSlashFreeOrDash ==
  \A p \in Callers :
    CatalogReturned(p) =>
      \A s \in Slots(p) :
        /\ s[1] # Sentinel => HasSlash(RepoAt(p, s))
        /\ s[1] = Sentinel => (~HasSlash(RepoAt(p, s)) \/ DashNamespace(RepoAt(p, s)))

C19_Witness ==
  /\ CatalogReturned(Main)
  /\ \E s \in Slots(Main) : \E t \in Slots(Main) :
       /\ s[1] = Sentinel /\ t[1] = Sentinel
       /\ RepoAt(Main, s) = Solo
       /\ RepoAt(Main, t) = DashX

====
